---- MODULE Spec2Model ----
(***************************************************************************)
(* Zaim Log: the transaction data pipeline of the expense tracker.         *)
(*                                                                         *)
(* A text (a file's content, a CSV line, a field, a form value) is a       *)
(* sequence of one-character strings.  The letters of the alphabet stand   *)
(* for runs of ordinary characters: "E" for the type written as the two    *)
(* kanji of "expense", "I" for those of "income".                          *)
(***************************************************************************)
EXTENDS Integers, Sequences, FiniteSets, Bags, TLC

VARIABLES
    transactions,           \* let transactions: the in-memory store
    filteredTransactions,   \* let filteredTransactions
    storage,                \* localStorage item 'zaim_transactions'
    nextId,                 \* position of the id generator crypto.randomUUID
    pending,                \* loadCSV promises of handleFileSelect calls in flight
    typeFilter,             \* value of #type-filter
    searchInput,            \* value of #search-input
    monthPicker,            \* value of #month-picker
    dashboardMonthPicker,   \* value of #dashboard-month-picker
    currentDashboardMonth,  \* let currentDashboardMonth
    dashboard,              \* the three totals shown by renderDashboard
    alertShown,             \* the alert() of the handler that ran last ("none": none)
    categoryChart,          \* let categoryChartInstance: the data of the chart drawn last
    calCurrentDate,         \* let calCurrentDate: the month the calendar is on
    dailyData,              \* the daily totals renderCalendar computed last
    dayData,                \* the list openDayDetail showed last
    csvText,                \* input of a direct parseCSVText call
    csvResult,              \* outcome of that call
    tokenLine,              \* input of a direct splitCSVLine call
    tokenFields,            \* outcome of that call
    pinCode,                \* let pinCode: the digits entered on the lock screen
    isSettingUp,            \* let isSettingUp
    tempPin,                \* let tempPin: the first entry of a PIN setup
    zaimPin,                \* localStorage item 'zaim_pin'
    lockScreen,             \* style.display of #lock-screen
    timers                  \* the setTimeout callbacks still to run, in the order set

vars == <<transactions, filteredTransactions, storage, nextId, pending,
          typeFilter, searchInput, monthPicker, dashboardMonthPicker,
          currentDashboardMonth, dashboard, alertShown, categoryChart,
          calCurrentDate, dailyData, dayData, csvText, csvResult,
          tokenLine, tokenFields,
          pinCode, isSettingUp, tempPin, zaimPin, lockScreen, timers>>

storeVars == <<transactions, filteredTransactions, storage, nextId, pending,
               typeFilter, searchInput, monthPicker, dashboardMonthPicker,
               currentDashboardMonth, dashboard, alertShown, categoryChart,
               calCurrentDate, dailyData, dayData,
               pinCode, isSettingUp, tempPin, zaimPin, lockScreen, timers>>

parseVars == <<csvText, csvResult, tokenLine, tokenFields>>

viewVars == <<calCurrentDate, dailyData, dayData>>

lockVars == <<pinCode, isSettingUp, tempPin, zaimPin, lockScreen, timers>>

(***************************************************************************)
(* Characters and JavaScript values                                        *)
(***************************************************************************)
QUOTE == "\""
COMMA == ","
LF == "\n"
CR == "\r"
TAB == "\t"
SPACE == " "
DASH == "-"
PLUS == "+"
APOSTROPHE == "'"
BOM == "BOM"

Digits == {"0", "1", "2", "3", "4", "5", "6", "7", "8", "9"}

DigitVal(c) ==
    CASE c = "0" -> 0 [] c = "1" -> 1 [] c = "2" -> 2 [] c = "3" -> 3
      [] c = "4" -> 4 [] c = "5" -> 5 [] c = "6" -> 6 [] c = "7" -> 7
      [] c = "8" -> 8 [] c = "9" -> 9

\* The two type strings the code compares with.
EXPENSE == <<"E">>
INCOME == <<"I">>

\* The value undefined where a string is expected (a missing column).
Undefined == <<"undefined">>

\* Number values: a number, NaN, and what JSON turns NaN into.
JsNum(n) == [k |-> "number", n |-> n]
JsNaN == [k |-> "NaN", n |-> 0]
JsNull == [k |-> "null", n |-> 0]
JsUndefined == [k |-> "undefined", n |-> 0]

\* String.prototype.trim: white space includes U+FEFF and the line ends.
IsSpace(c) == c \in {SPACE, TAB, CR, LF, BOM}

RECURSIVE TrimStart(_)
TrimStart(s) ==
    IF s # <<>> /\ IsSpace(Head(s)) THEN TrimStart(Tail(s)) ELSE s

RECURSIVE TrimEnd(_)
TrimEnd(s) ==
    IF s # <<>> /\ IsSpace(s[Len(s)]) THEN TrimEnd(SubSeq(s, 1, Len(s) - 1)) ELSE s

trim(s) == TrimEnd(TrimStart(s))

\* String.prototype.padStart(n, c) with a one-character filler.
RECURSIVE padStart(_, _, _)
padStart(s, n, c) == IF Len(s) >= n THEN s ELSE padStart(<<c>> \o s, n, c)

\* String.prototype.startsWith
startsWith(s, p) == Len(p) <= Len(s) /\ SubSeq(s, 1, Len(p)) = p

\* String.prototype.substring(0, n)
substring0(s, n) == SubSeq(s, 1, IF n < Len(s) THEN n ELSE Len(s))

RECURSIVE DigitPrefix(_)
DigitPrefix(s) ==
    IF s # <<>> /\ Head(s) \in Digits THEN <<Head(s)>> \o DigitPrefix(Tail(s)) ELSE <<>>

RECURSIVE DigitsValue(_)
DigitsValue(d) ==
    IF d = <<>> THEN 0
    ELSE 10 * DigitsValue(SubSeq(d, 1, Len(d) - 1)) + DigitVal(d[Len(d)])

\* parseInt(s): leading white space, an optional sign, the leading decimal digits;
\* NaN when there is no digit.  (The alphabet has no "x": no hexadecimal prefix.)
parseInt(s) ==
    LET t == TrimStart(s)
        signed == t # <<>> /\ Head(t) \in {DASH, PLUS}
        u == IF signed THEN Tail(t) ELSE t
        d == DigitPrefix(u)
    IN  IF d = <<>> THEN JsNaN
        ELSE IF signed /\ Head(t) = DASH THEN JsNum(0 - DigitsValue(d))
        ELSE JsNum(DigitsValue(d))

\* Number(s) on the parts of a date input's value: digits only there.
Number(s) ==
    IF s = Undefined THEN JsUndefined
    ELSE IF s # <<>> /\ DigitPrefix(s) = s THEN JsNum(DigitsValue(s))
    ELSE IF trim(s) = <<>> THEN JsNum(0)
    ELSE JsNaN

(***************************************************************************)
(* CSV loader: src/unnamed/part_000 lines 19-88                            *)
(***************************************************************************)
RECURSIVE removeChars(_, _)
removeChars(s, cs) ==
    IF s = <<>> THEN <<>>
    ELSE IF Head(s) \in cs THEN removeChars(Tail(s), cs)
    ELSE <<Head(s)>> \o removeChars(Tail(s), cs)

\* Variant of parseAmount: return parseInt(clean), without || 0.
parseAmountNoDefault(str) ==
    IF str = Undefined \/ str = <<>> THEN JsNum(0)
    ELSE parseInt(trim(removeChars(str, {QUOTE, APOSTROPHE, COMMA})))

parseAmount(str) ==
    IF str = Undefined \/ str = <<>> THEN JsNum(0)
    ELSE LET clean == trim(removeChars(str, {QUOTE, APOSTROPHE, COMMA}))
             v == parseInt(clean)
         IN  IF v.k = "number" THEN v ELSE JsNum(0)

RECURSIVE splitCSVLineFrom(_, _, _, _, _)
splitCSVLineFrom(line, i, result, current, inQuote) ==
    IF i > Len(line) THEN Append(result, current)
    ELSE LET char == line[i]
         IN  IF char = QUOTE
                 THEN splitCSVLineFrom(line, i + 1, result, current, ~inQuote)
             ELSE IF char = COMMA /\ ~inQuote
                 THEN splitCSVLineFrom(line, i + 1, Append(result, current), <<>>, inQuote)
             ELSE splitCSVLineFrom(line, i + 1, result, Append(current, char), inQuote)

\* Variant of splitCSVLine below: the line is taken to start inside quotes.
splitCSVLineStartsQuoted(line) == splitCSVLineFrom(line, 1, <<>>, <<>>, TRUE)

splitCSVLine(line) == splitCSVLineFrom(line, 1, <<>>, <<>>, FALSE)

\* text.replace(/^\uFEFF/, '')
stripBOM(text) == IF text # <<>> /\ Head(text) = BOM THEN Tail(text) ELSE text

\* content.split(/\r?\n/)
splitLines(content) ==
    LET breaks == {i \in 1..Len(content) : content[i] = LF}
        n == Cardinality(breaks)
        break(k) == CHOOSE b \in breaks : Cardinality({x \in breaks : x <= b}) = k
        first(k) == IF k = 1 THEN 1 ELSE break(k - 1) + 1
        last(k) == IF k = n + 1 THEN Len(content)
                   ELSE IF break(k) - 1 >= first(k) /\ content[break(k) - 1] = CR
                       THEN break(k) - 2
                   ELSE break(k) - 1
    IN  [k \in 1..(n + 1) |-> SubSeq(content, first(k), last(k))]

\* cols[0].match(/^\d{4}$/)
matchYear(s) == Len(s) = 4 /\ \A i \in 1..4 : s[i] \in Digits

\* cols[j] with the code's 0-based index: undefined past the end.
col(cols, j) == IF j + 1 <= Len(cols) THEN cols[j + 1] ELSE Undefined

\* The object literal of lines 42-56; id is the value crypto.randomUUID returned.
csvItem(cols, id) ==
    LET year == col(cols, 0)
        month == padStart(col(cols, 1), 2, "0")
        day == padStart(col(cols, 2), 2, "0")
    IN  [id |-> id,
         date |-> year \o <<DASH>> \o month \o <<DASH>> \o day,
         year |-> parseInt(year),
         month |-> parseInt(month),
         day |-> parseInt(day),
         type |-> col(cols, 3),
         category_med |-> col(cols, 4),
         category_sml |-> col(cols, 5),
         detail |-> col(cols, 6),
         amount |-> parseAmount(col(cols, 7)),
         value_type |-> col(cols, 8),
         payee |-> col(cols, 9),
         method |-> col(cols, 10)]

\* The loop of lines 26-59 from JavaScript index i - 1 on.  cols[1].padStart and
\* cols[2].padStart throw a TypeError when the column is missing: the call then
\* returns nothing (threw).  nextId is the id generator's position afterwards.
RECURSIVE parseLinesFrom(_, _, _, _)
parseLinesFrom(lines, i, expenses, id) ==
    IF i > Len(lines) THEN [threw |-> FALSE, expenses |-> expenses, nextId |-> id]
    ELSE LET line == trim(lines[i])
             cols == splitCSVLine(line)
         IN  IF line = <<>> THEN parseLinesFrom(lines, i + 1, expenses, id)
             ELSE IF ~matchYear(col(cols, 0)) THEN parseLinesFrom(lines, i + 1, expenses, id)
             ELSE IF col(cols, 1) = Undefined \/ col(cols, 2) = Undefined
                 THEN [threw |-> TRUE, expenses |-> <<>>, nextId |-> id]
             ELSE parseLinesFrom(lines, i + 1, Append(expenses, csvItem(cols, id)), id + 1)

\* parseCSVText(text), drawing its ids from firstId on.
parseCSVText(text, firstId) ==
    parseLinesFrom(splitLines(stripBOM(text)), 2, <<>>, firstId)

(***************************************************************************)
(* Persistence: JSON.stringify / JSON.parse of the list, lines 293-303     *)
(***************************************************************************)
StringKeys == {"date", "type", "category_med", "category_sml", "detail",
               "value_type", "payee", "method"}
NumberKeys == {"year", "month", "day", "amount"}
Keys == {"id"} \cup StringKeys \cup NumberKeys

\* A JSON value: a string (an id is the string named by n), a number or null.
jsonString(s) == [t |-> "string", s |-> s, n |-> 0]
jsonId(id) == [t |-> "string", s |-> <<>>, n |-> id]
jsonNumber(n) == [t |-> "number", s |-> <<>>, n |-> n]
jsonNull == [t |-> "null", s |-> <<>>, n |-> 0]

\* JSON.stringify of one value: NaN becomes null.
jsonValue(key, v) ==
    IF key = "id" THEN jsonId(v)
    ELSE IF key \in StringKeys THEN jsonString(v)
    ELSE IF v.k = "number" THEN jsonNumber(v.n)
    ELSE jsonNull

\* JSON.stringify of one object: a property whose value is undefined is left out.
jsonObject(o) ==
    LET present == {key \in Keys :
                       /\ ~(key \in StringKeys /\ o[key] = Undefined)
                       /\ ~(key \in NumberKeys /\ o[key].k = "undefined")}
    IN  [key \in present |-> jsonValue(key, o[key])]

JSONstringify(list) == [i \in 1..Len(list) |-> jsonObject(list[i])]

\* Reading a property of a parsed object: a missing property reads undefined.
parsedString(j, key) == IF key \in DOMAIN j THEN j[key].s ELSE Undefined
parsedNumber(j, key) ==
    IF key \notin DOMAIN j THEN JsUndefined
    ELSE IF j[key].t = "number" THEN JsNum(j[key].n)
    ELSE JsNull

parsedObject(j) ==
    [id |-> j["id"].n,
     date |-> parsedString(j, "date"),
     year |-> parsedNumber(j, "year"),
     month |-> parsedNumber(j, "month"),
     day |-> parsedNumber(j, "day"),
     type |-> parsedString(j, "type"),
     category_med |-> parsedString(j, "category_med"),
     category_sml |-> parsedString(j, "category_sml"),
     detail |-> parsedString(j, "detail"),
     amount |-> parsedNumber(j, "amount"),
     value_type |-> parsedString(j, "value_type"),
     payee |-> parsedString(j, "payee"),
     method |-> parsedString(j, "method")]

JSONparse(doc) == [i \in 1..Len(doc) |-> parsedObject(doc[i])]

\* localStorage.getItem('zaim_transactions') before any setItem: null.
NoItem == [present |-> FALSE, doc |-> <<>>]

\* Variant of saveToStorage: the filtered view is written instead of the list.
saveToStorageFiltered(list) == [present |-> TRUE, doc |-> JSONstringify(filteredTransactions)]

\* saveToStorage(): the item after localStorage.setItem.
saveToStorage(list) == [present |-> TRUE, doc |-> JSONstringify(list)]

(***************************************************************************)
(* Dates and the date-descending sort, lines 312, 335                      *)
(***************************************************************************)
isLeap(y) == (y % 4 = 0 /\ y % 100 # 0) \/ y % 400 = 0

daysInMonth(y, m) ==
    IF m = 2 THEN (IF isLeap(y) THEN 29 ELSE 28)
    ELSE IF m \in {4, 6, 9, 11} THEN 30 ELSE 31

\* new Date(date) for a date-only string: a time value for YYYY-MM-DD with a
\* month and a day that exist, NaN (Invalid Date) otherwise.  The time value is
\* replaced by a number that orders the same way.
dateTime(date) ==
    IF /\ Len(date) = 10
       /\ date[5] = DASH /\ date[8] = DASH
       /\ \A i \in {1, 2, 3, 4, 6, 7, 9, 10} : date[i] \in Digits
    THEN LET y == DigitsValue(SubSeq(date, 1, 4))
             m == DigitsValue(SubSeq(date, 6, 7))
             d == DigitsValue(SubSeq(date, 9, 10))
         IN  IF m \in 1..12 /\ d \in 1..daysInMonth(y, m)
                 THEN JsNum(y * 10000 + m * 100 + d)
                 ELSE JsNaN
    ELSE JsNaN

\* The comparator (a, b) => new Date(b.date) - new Date(a.date); sort reads NaN as 0.
compareDateDesc(a, b) ==
    LET ta == dateTime(a.date)
        tb == dateTime(b.date)
    IN  IF ta.k = "number" /\ tb.k = "number" THEN tb.n - ta.n ELSE 0

RECURSIVE insertSorted(_, _)
insertSorted(x, sorted) ==
    IF sorted = <<>> THEN <<x>>
    ELSE IF compareDateDesc(x, Head(sorted)) > 0
        THEN <<Head(sorted)>> \o insertSorted(x, Tail(sorted))
    ELSE <<x>> \o sorted

RECURSIVE stableSort(_)
stableSort(list) ==
    IF list = <<>> THEN <<>> ELSE insertSorted(Head(list), stableSort(Tail(list)))

\* The comparator is a consistent one (equal is transitive) unless an Invalid
\* Date, which compares equal to every date, meets two dates that differ.
consistentComparator(list) ==
    LET time == [i \in 1..Len(list) |-> dateTime(list[i].date)]
        valid == {i \in 1..Len(list) : time[i].k = "number"}
    IN  \/ valid = 1..Len(list)
        \/ \A i, j \in valid : time[i].n = time[j].n

\* Array.prototype.sort with that comparator: the stable order, or, when the
\* comparator is inconsistent, an implementation-defined order.
sortByDateDesc(list) ==
    IF consistentComparator(list) THEN {stableSort(list)}
    ELSE {[i \in 1..Len(list) |-> list[p[i]]] : p \in Permutations(1..Len(list))}

\* getLatestMonth(data): the values it may return.
getLatestMonth(data) ==
    IF Len(data) = 0 THEN {<<>>}
    ELSE {substring0(sorted[1].date, 7) : sorted \in sortByDateDesc(data)}

(***************************************************************************)
(* Queries, lines 317-394                                                  *)
(***************************************************************************)
ALL == <<"all">>

\* String.prototype.toLowerCase on the alphabet: only Latin capitals change.
lowerChar(c) ==
    CASE c = "A" -> "a" [] c = "B" -> "b" [] c = "C" -> "c" [] c = "L" -> "l"
      [] c = "S" -> "s" [] OTHER -> c

toLowerCase(s) == [i \in 1..Len(s) |-> lowerChar(s[i])]

includes(s, sub) ==
    \E i \in 0..(Len(s) - Len(sub)) : SubSeq(s, i + 1, i + Len(sub)) = sub

\* (v || ''): undefined and the empty string both give ''.
orEmpty(v) == IF v = Undefined THEN <<>> ELSE v

matchesFilter(t, type, search, month) ==
    LET matchType == \/ type = ALL
                     \/ (type = EXPENSE /\ t.type = EXPENSE)
                     \/ (type = INCOME /\ t.type = INCOME)
        matchSearch == \/ includes(toLowerCase(orEmpty(t.detail)), search)
                       \/ includes(toLowerCase(orEmpty(t.category_med)), search)
                       \/ includes(toLowerCase(orEmpty(t.payee)), search)
        matchMonth == IF month # <<>> THEN startsWith(t.date, month) ELSE TRUE
    IN  matchType /\ matchSearch /\ matchMonth

\* Variant of filterTransactions: the search text is not lower-cased.
filterTransactionsCased(list, type, search, month) ==
    LET Keep(t) == matchesFilter(t, type, search, month)
    IN  sortByDateDesc(SelectSeq(list, Keep))

\* filterTransactions(): the lists it may leave in filteredTransactions.
filterTransactions(list, type, search, month) ==
    LET Keep(t) == matchesFilter(t, type, toLowerCase(search), month)
    IN  sortByDateDesc(SelectSeq(list, Keep))

RECURSIVE sumAmount(_)
sumAmount(list) ==
    IF list = <<>> THEN 0 ELSE Head(list).amount.n + sumAmount(Tail(list))

\* Variant of the totals below: the month is not looked at.
monthTotalsAllMonths(list, targetMonth) ==
    LET IsIncome(t) == t.type = INCOME
        IsExpense(t) == t.type = EXPENSE
        income == sumAmount(SelectSeq(list, IsIncome))
        expense == sumAmount(SelectSeq(list, IsExpense))
    IN  [income |-> income, expense |-> expense, balance |-> income - expense]

\* Lines 372-384: the three totals of a month.
monthTotals(list, targetMonth) ==
    LET InMonth(t) == startsWith(t.date, targetMonth)
        IsIncome(t) == t.type = INCOME
        IsExpense(t) == t.type = EXPENSE
        currentMonthData == SelectSeq(list, InMonth)
        income == sumAmount(SelectSeq(currentMonthData, IsIncome))
        expense == sumAmount(SelectSeq(currentMonthData, IsExpense))
    IN  [income |-> income, expense |-> expense, balance |-> income - expense]

\* A string value whose text is not followed, and an object or function.
JsString == [k |-> "string", n |-> 0]
JsObject == [k |-> "object", n |-> 0]

\* The property key an expression in brackets names: String(v).
propertyKey(v) ==
    IF v = Undefined THEN <<"u", "n", "d", "e", "f", "i", "n", "e", "d">> ELSE v

\* Properties every object literal inherits from Object.prototype: methods, and
\* the accessor __proto__, whose setter ignores a value that is no object.
InheritedMethods ==
    {<<"c", "o", "n", "s", "t", "r", "u", "c", "t", "o", "r">>,
     <<"t", "o", "S", "t", "r", "i", "n", "g">>,
     <<"v", "a", "l", "u", "e", "O", "f">>}
ProtoAccessor == <<"_", "_", "p", "r", "o", "t", "o", "_", "_">>

\* totals[key] of the object literal totals, kept as its own properties in the
\* order they were created.
getProperty(totals, key) ==
    IF \E i \in 1..Len(totals) : totals[i].key = key
        THEN LET i == CHOOSE j \in 1..Len(totals) : totals[j].key = key
             IN  totals[i].value
    ELSE IF key \in InheritedMethods \cup {ProtoAccessor} THEN JsObject
    ELSE JsUndefined

\* totals[key] = value
setProperty(totals, key, value) ==
    IF \E i \in 1..Len(totals) : totals[i].key = key
        THEN [i \in 1..Len(totals) |->
                 IF totals[i].key = key THEN [key |-> key, value |-> value] ELSE totals[i]]
    ELSE IF key = ProtoAccessor THEN totals
    ELSE Append(totals, [key |-> key, value |-> value])

\* (old || 0) + amount: a number to a number; an object or a string makes a string.
orZeroPlus(old, amount) ==
    IF old.k \in {"object", "string"} THEN JsString
    ELSE IF old.k = "number" THEN JsNum(old.n + amount.n)
    ELSE JsNum(amount.n)

\* The forEach of lines 794-796 from index i on.
RECURSIVE groupByCategoryFrom(_, _, _)
groupByCategoryFrom(expenses, i, totals) ==
    IF i > Len(expenses) THEN totals
    ELSE LET t == expenses[i]
             key == propertyKey(t.category_med)
         IN  groupByCategoryFrom(expenses, i + 1,
                 setProperty(totals, key, orZeroPlus(getProperty(totals, key), t.amount)))

\* renderCharts(data): the labels and data handed to the chart, in order.
renderCharts(data) ==
    LET IsExpense(t) == t.type = EXPENSE
    IN  groupByCategoryFrom(SelectSeq(data, IsExpense), 1, <<>>)

\* let categoryChartInstance = null
NoChart == [drawn |-> FALSE, totals |-> <<>>]

chartOf(list, targetMonth) ==
    LET InMonth(t) == startsWith(t.date, targetMonth)
    IN  [drawn |-> TRUE, totals |-> renderCharts(SelectSeq(list, InMonth))]

\* renderDashboard(): the (picker value, currentDashboardMonth, totals, chart) it
\* may leave.  With an empty store it returns before the chart is touched.
renderDashboard(list, picker, current) ==
    IF Len(list) = 0
    THEN {[picker |-> <<>>, current |-> current,
           totals |-> [income |-> 0, expense |-> 0, balance |-> 0],
           chart |-> categoryChart]}
    ELSE IF picker = <<>>
    THEN LET months == IF current = <<>> THEN getLatestMonth(list) ELSE {current}
         IN  {[picker |-> m, current |-> m, totals |-> monthTotals(list, m),
               chart |-> chartOf(list, m)] : m \in months}
    ELSE {[picker |-> picker, current |-> picker, totals |-> monthTotals(list, picker),
           chart |-> chartOf(list, picker)]}

(***************************************************************************)
(* Calendar and day detail, lines 474-605                                  *)
(***************************************************************************)
DigitChar(d) == CHOOSE c \in Digits : DigitVal(c) = d

\* String(n) of a non-negative integer.
RECURSIVE String(_)
String(n) == IF n < 10 THEN <<DigitChar(n)>> ELSE String(n \div 10) \o <<DigitChar(n % 10)>>

\* calCurrentDate.setMonth(month): month -1 is December of the year before, 12
\* January of the year after; a day of month the month does not have runs over
\* into the next month.
setMonth(d, month) ==
    LET y == IF month < 0 THEN d.year - 1 ELSE IF month > 11 THEN d.year + 1 ELSE d.year
        m == (month + 12) % 12
        days == daysInMonth(y, m + 1)
    IN  IF d.date <= days THEN [year |-> y, month |-> m, date |-> d.date]
        ELSE [year |-> IF m = 11 THEN y + 1 ELSE y, month |-> (m + 1) % 12,
              date |-> d.date - days]

\* `${year}-${String(month + 1).padStart(2, '0')}`
monthStr(year, month) == String(year) \o <<DASH>> \o padStart(String(month + 1), 2, "0")

\* `${year}-${...}-${String(day).padStart(2, '0')}`
dateStr(year, month, day) == monthStr(year, month) \o <<DASH>> \o padStart(String(day), 2, "0")

\* The forEach of lines 510-515 from index i on; dailyData is kept as its
\* properties (the days, keyed by t.day) in the order they were created.
RECURSIVE groupByDayFrom(_, _, _)
groupByDayFrom(monthData, i, daily) ==
    IF i > Len(monthData) THEN daily
    ELSE LET t == monthData[i]
             created == IF \E j \in 1..Len(daily) : daily[j].day = t.day THEN daily
                        ELSE Append(daily, [day |-> t.day, income |-> 0, expense |-> 0])
             added == [j \in 1..Len(created) |->
                          IF created[j].day # t.day THEN created[j]
                          ELSE IF t.type = INCOME
                              THEN [created[j] EXCEPT !.income = @ + t.amount.n]
                          ELSE IF t.type = EXPENSE
                              THEN [created[j] EXCEPT !.expense = @ + t.amount.n]
                          ELSE created[j]]
         IN  groupByDayFrom(monthData, i + 1, added)

\* Variant of renderCalendar: the records are not narrowed to the month.
renderCalendarAllMonths(list, cal) ==
    [rendered |-> TRUE, days |-> groupByDayFrom(list, 1, <<>>)]

\* renderCalendar(): the daily totals of the month calCurrentDate is on.
renderCalendar(list, cal) ==
    LET InMonth(t) == startsWith(t.date, monthStr(cal.year, cal.month))
    IN  [rendered |-> TRUE, days |-> groupByDayFrom(SelectSeq(list, InMonth), 1, <<>>)]

\* The calendar grid before renderCalendar has run.
NoCalendar == [rendered |-> FALSE, days |-> <<>>]

\* The comparator of lines 563-566: type first (income before anything else),
\* then amount descending.
compareDay(a, b) ==
    IF a.type # b.type THEN (IF a.type = INCOME THEN -1 ELSE 1)
    ELSE b.amount.n - a.amount.n

RECURSIVE insertByDay(_, _)
insertByDay(x, sorted) ==
    IF sorted = <<>> THEN <<x>>
    ELSE IF compareDay(x, Head(sorted)) > 0
        THEN <<Head(sorted)>> \o insertByDay(x, Tail(sorted))
    ELSE <<x>> \o sorted

RECURSIVE stableSortByDay(_)
stableSortByDay(list) ==
    IF list = <<>> THEN <<>> ELSE insertByDay(Head(list), stableSortByDay(Tail(list)))

\* The comparator is consistent unless two records of different types are both
\* not income: each is then told to come after the other.
consistentDayComparator(list) ==
    \A i, j \in 1..Len(list) :
        list[i].type # list[j].type => (list[i].type = INCOME \/ list[j].type = INCOME)

\* dayData.sort(...): the stable order, or, when the comparator is inconsistent,
\* an implementation-defined order.
sortByDay(list) ==
    IF consistentDayComparator(list) THEN {stableSortByDay(list)}
    ELSE {[i \in 1..Len(list) |-> list[p[i]]] : p \in Permutations(1..Len(list))}

\* openDayDetail(year, month, day): the lists it may show.
openDayDetail(list, year, month, day) ==
    LET OnDay(t) == t.date = dateStr(year, month, day)
    IN  sortByDay(SelectSeq(list, OnDay))

(***************************************************************************)
(* Inputs: the files the user may select and the forms the user may submit *)
(***************************************************************************)
MaxId == 3
MaxPending == 1

RECURSIVE join(_, _)
join(parts, sep) ==
    IF parts = <<>> THEN <<>>
    ELSE IF Len(parts) = 1 THEN parts[1]
    ELSE parts[1] \o sep \o join(Tail(parts), sep)

csvLine(fields) == join(fields, <<COMMA>>)

Y2025 == <<"2", "0", "2", "5">>

LineHeader == csvLine(<<<<"y">>, <<"m">>, <<"d">>>>)
LineLunch ==
    csvLine(<<Y2025, <<"0", "3">>, <<"1", "5">>, EXPENSE, <<"f">>, <<>>, <<"L">>,
              <<"1", "2">>, <<>>, <<"S">>, <<"C">>>>)
LineRefund ==
    csvLine(<<Y2025, <<"4">>, <<"2">>, EXPENSE, <<QUOTE, "f", COMMA, "b", QUOTE>>, <<>>,
              <<"r">>, <<DASH, "5">>, <<>>, <<>>, <<"C">>>>)
LineTotal ==
    csvLine(<<<<"T">>, <<>>, <<>>, <<>>, <<>>, <<>>, <<>>, <<"7">>, <<>>, <<>>, <<>>>>)
LineBadMonth == csvLine(<<Y2025, <<"a", "b">>, <<"1", "5">>, EXPENSE, <<"f">>>>)
LineYearOnly == Y2025
LineBlank == <<SPACE>>

\* A header, two data lines (the second with unpadded month and day, a quoted
\* category and a negative amount) and a footer.
FileMarch == join(<<LineHeader, LineLunch, LineRefund, LineTotal>>, <<LF>>)
\* A byte-order mark, CR LF line ends, and a data line whose month is no number
\* and that stops after the category.
FileBadMonth == <<BOM>> \o join(<<LineHeader, LineBadMonth, <<>>>>, <<CR, LF>>)
\* A data line that is the year alone.
FileYearOnly == join(<<LineHeader, LineYearOnly>>, <<LF>>)
\* No data line.
FileNoData == join(<<LineHeader, LineBlank, LineTotal>>, <<LF>>)

Files == {FileMarch, FileBadMonth, FileYearOnly, FileNoData}

\* The values of the entry form's controls.  #entry-date is a date input
\* (valueAsDate is set on it): its value is '' or a date YYYY-MM-DD.
entryForm(date, type, amount, categoryMed, detail) ==
    [date |-> date, type |-> type, amount |-> amount, category_med |-> categoryMed,
     detail |-> detail, method |-> <<"C">>, value_type |-> <<>>]

March20 == Y2025 \o <<DASH, "0", "3", DASH, "2", "0">>

FormBonus == entryForm(March20, INCOME, <<"7">>, <<"s">>, <<"B">>)
FormNoDate == entryForm(<<>>, EXPENSE, <<"3">>, <<"f">>, <<>>)
FormNoAmount == entryForm(March20, EXPENSE, <<>>, <<"f">>, <<>>)

Forms == {FormBonus, FormNoDate, FormNoAmount}

\* The months the user may pick in #dashboard-month-picker ('' clears it).
PickerMonths ==
    {<<>>, Y2025 \o <<DASH, "0", "3">>}

(***************************************************************************)
(* The handlers                                                            *)
(***************************************************************************)
\* dateVal.split('-')
RECURSIVE splitDashFrom(_, _, _, _)
splitDashFrom(s, i, current, parts) ==
    IF i > Len(s) THEN Append(parts, current)
    ELSE IF s[i] = DASH THEN splitDashFrom(s, i + 1, <<>>, Append(parts, current))
    ELSE splitDashFrom(s, i + 1, Append(current, s[i]), parts)

splitDash(s) == splitDashFrom(s, 1, <<>>, <<>>)

\* Variant of the object literal below: one id for every entry.
newItemFixedId(form, id) ==
    LET parts == splitDash(form.date)
    IN  [id |-> 1,
         date |-> form.date,
         year |-> Number(col(parts, 0)),
         month |-> Number(col(parts, 1)),
         day |-> Number(col(parts, 2)),
         type |-> form.type,
         category_med |-> form.category_med,
         category_sml |-> <<>>,
         detail |-> form.detail,
         amount |-> parseInt(form.amount),
         value_type |-> form.value_type,
         payee |-> <<>>,
         method |-> form.method]

\* The object literal of lines 156-170.
newItem(form, id) ==
    LET parts == splitDash(form.date)
    IN  [id |-> id,
         date |-> form.date,
         year |-> Number(col(parts, 0)),
         month |-> Number(col(parts, 1)),
         day |-> Number(col(parts, 2)),
         type |-> form.type,
         category_med |-> form.category_med,
         category_sml |-> <<>>,
         detail |-> form.detail,
         amount |-> parseInt(form.amount),
         value_type |-> form.value_type,
         payee |-> <<>>,
         method |-> form.method]

\* if (!dateVal || isNaN(amount)) return;
entryRejected(form) == form.date = <<>> \/ parseInt(form.amount).k = "NaN"

\* Variant of unshift: transactions.push(newItem).
push(list, item) == Append(list, item)

\* transactions.unshift(newItem)
unshift(list, item) == <<item>> \o list

\* Variant of the filter below: t.id === id.
removeByIdKeepsMatch(list, id) == LET Keep(t) == t.id = id IN SelectSeq(list, Keep)

\* transactions.filter(t => t.id !== id)
removeById(list, id) == LET Keep(t) == t.id # id IN SelectSeq(list, Keep)

\* filterTransactions(); renderDashboard() over the list a handler leaves.
Refresh(list) ==
    /\ filteredTransactions' \in filterTransactions(list, typeFilter, searchInput, monthPicker)
    /\ \E r \in renderDashboard(list, dashboardMonthPicker, currentDashboardMonth) :
          /\ dashboardMonthPicker' = r.picker
          /\ currentDashboardMonth' = r.current
          /\ dashboard' = r.totals
          /\ categoryChart' = r.chart

handleEntrySubmit(form) ==
    IF entryRejected(form)
    THEN /\ alertShown' = "none"
         /\ UNCHANGED <<transactions, filteredTransactions, storage, nextId, pending,
                        typeFilter, searchInput, monthPicker, dashboardMonthPicker,
                        currentDashboardMonth, dashboard, categoryChart,
                   parseVars, viewVars, lockVars>>
    ELSE /\ nextId <= MaxId
         /\ transactions' = unshift(transactions, newItem(form, nextId))
         /\ nextId' = nextId + 1
         /\ storage' = saveToStorage(transactions')
         /\ Refresh(transactions')
         /\ alertShown' = "registered"
         /\ UNCHANGED <<pending, typeFilter, searchInput, monthPicker, parseVars, viewVars, lockVars>>

deleteTransaction(id, confirmed) ==
    IF ~confirmed
    THEN /\ alertShown' = "none"
         /\ UNCHANGED <<transactions, filteredTransactions, storage, nextId, pending,
                        typeFilter, searchInput, monthPicker, dashboardMonthPicker,
                        currentDashboardMonth, dashboard, categoryChart,
                   parseVars, viewVars, lockVars>>
    ELSE /\ transactions' = removeById(transactions, id)
         /\ storage' = saveToStorage(transactions')
         /\ Refresh(transactions')
         /\ alertShown' = "none"
         /\ UNCHANGED <<nextId, pending, typeFilter, searchInput, monthPicker, parseVars, viewVars, lockVars>>

\* A read in flight: the text the reader will deliver, whether the promise is
\* still to be settled ("reading") or never will be ("suspended"), and a note of
\* the store as it was when the import started.
read(text, state, atStart) == [text |-> text, state |-> state, atStart |-> atStart]

NoNote == [transactions |-> <<>>, storage |-> NoItem]

\* handleFileSelect up to its await: loadCSV(file) starts the reader.
handleFileSelect(text, atStart) ==
    /\ BagCardinality(pending) < MaxPending
    /\ pending' = pending (+) SetToBag({read(text, "reading", atStart)})
    /\ alertShown' = "none"
    /\ UNCHANGED <<transactions, filteredTransactions, storage, nextId,
                   typeFilter, searchInput, monthPicker, dashboardMonthPicker,
                   currentDashboardMonth, dashboard, categoryChart,
                   parseVars, viewVars, lockVars>>

\* handleFileSelect with no file chosen: if (!file) return.
handleFileSelectNoFile ==
    /\ alertShown' = "none"
    /\ UNCHANGED <<transactions, filteredTransactions, storage, nextId, pending,
                   typeFilter, searchInput, monthPicker, dashboardMonthPicker,
                   currentDashboardMonth, dashboard, categoryChart,
                   parseVars, viewVars, lockVars>>

\* Variant of reader.onload below: the parsed list is added to the store.
readerOnloadAppends(r) ==
    LET parsed == parseCSVText(r.text, nextId)
    IN  /\ r.state = "reading"
        /\ parsed.nextId <= MaxId + 1
        /\ nextId' = parsed.nextId
        /\ IF parsed.threw
           THEN /\ pending' = (pending (-) SetToBag({r}))
                                  (+) SetToBag({read(r.text, "suspended", r.atStart)})
                /\ alertShown' = "none"
                /\ UNCHANGED <<transactions, filteredTransactions, storage,
                               dashboardMonthPicker, currentDashboardMonth, dashboard,
                               categoryChart>>
           ELSE /\ transactions' = transactions \o parsed.expenses
                /\ storage' = saveToStorage(transactions')
                /\ Refresh(transactions')
                /\ pending' = pending (-) SetToBag({r})
                /\ alertShown' = "loaded"
        /\ UNCHANGED <<typeFilter, searchInput, monthPicker, parseVars, viewVars, lockVars>>

\* reader.onload of a read in flight: parseCSVText runs inside the callback.  When
\* it returns, the promise resolves and handleFileSelect goes on after its await;
\* when it throws, the promise is never settled.
readerOnload(r) ==
    LET parsed == parseCSVText(r.text, nextId)
    IN  /\ r.state = "reading"
        /\ parsed.nextId <= MaxId + 1
        /\ nextId' = parsed.nextId
        /\ IF parsed.threw
           THEN /\ pending' = (pending (-) SetToBag({r}))
                                  (+) SetToBag({read(r.text, "suspended", r.atStart)})
                /\ alertShown' = "none"
                /\ UNCHANGED <<transactions, filteredTransactions, storage,
                               dashboardMonthPicker, currentDashboardMonth, dashboard,
                               categoryChart>>
           ELSE /\ transactions' = parsed.expenses
                /\ storage' = saveToStorage(transactions')
                /\ Refresh(transactions')
                /\ pending' = pending (-) SetToBag({r})
                /\ alertShown' = "loaded"
        /\ UNCHANGED <<typeFilter, searchInput, monthPicker, parseVars, viewVars, lockVars>>

\* Variant of reader.onerror below: the catch block empties the list.
readerOnerrorClears(r) ==
    /\ r.state = "reading"
    /\ pending' = pending (-) SetToBag({r})
    /\ alertShown' = "failed"
    /\ transactions' = <<>>
    /\ UNCHANGED <<filteredTransactions, storage, nextId,
                   typeFilter, searchInput, monthPicker, dashboardMonthPicker,
                   currentDashboardMonth, dashboard, categoryChart,
                   parseVars, viewVars, lockVars>>

\* reader.onerror of a read in flight: the promise rejects and the catch block of
\* handleFileSelect reports it.
readerOnerror(r) ==
    /\ r.state = "reading"
    /\ pending' = pending (-) SetToBag({r})
    /\ alertShown' = "failed"
    /\ UNCHANGED <<transactions, filteredTransactions, storage, nextId,
                   typeFilter, searchInput, monthPicker, dashboardMonthPicker,
                   currentDashboardMonth, dashboard, categoryChart,
                   parseVars, viewVars, lockVars>>

(***************************************************************************)
(* The lock system, lines 608-767                                          *)
(***************************************************************************)
\* The digits of the keypad and the keyboard that are pressed.
PinDigits == {"1", "2"}

\* localStorage.getItem('zaim_pin'): null when no PIN was saved.
NoPin == [present |-> FALSE, pin |-> <<>>]

\* if (savedPin): the item is there and is not ''.
hasPin(item) == item.present /\ item.pin # <<>>

\* The callbacks given to setTimeout: handlePinComplete after 100 ms (line 690),
\* resetPinState after 400 ms (lines 764-766).
COMPLETE == "handlePinComplete"
RESET == "resetPinState"

\* The timers that can be pending at once.
MaxTimers == 2

\* The timer at place i can run next: a timer runs before the timers set after
\* it, except that a 100 ms timer can pass 400 ms timers set before it.
canRun(i) ==
    /\ i \in 1..Len(timers)
    /\ \/ i = 1
       \/ timers[i] = COMPLETE /\ \A j \in 1..(i - 1) : timers[j] = RESET

\* The pending timers without the one at place i.
cleared(i) == SubSeq(timers, 1, i - 1) \o SubSeq(timers, i + 1, Len(timers))

\* addPinDigit(digit), lines 683-692.
addPinDigit(digit) ==
    IF Len(pinCode) >= 4
    THEN UNCHANGED <<pinCode, timers>>
    ELSE /\ pinCode' = Append(pinCode, digit)
         /\ IF Len(pinCode') = 4
            THEN /\ Len(timers) < MaxTimers
                 /\ timers' = Append(timers, COMPLETE)
            ELSE UNCHANGED timers

\* removePinDigit(), lines 694-699.
removePinDigit ==
    /\ pinCode' = IF Len(pinCode) > 0 THEN SubSeq(pinCode, 1, Len(pinCode) - 1) ELSE pinCode
    /\ UNCHANGED timers

\* The click on a key of the keypad that carries a digit (lines 630-635).  The
\* keypad is part of #lock-screen: it takes clicks once the script has shown it.
clickKey(num) ==
    /\ lockScreen = "flex"
    /\ addPinDigit(num)
    /\ alertShown' = "none"
    /\ UNCHANGED <<isSettingUp, tempPin, zaimPin, lockScreen>>
    /\ UNCHANGED <<transactions, filteredTransactions, storage, nextId, pending,
                   typeFilter, searchInput, monthPicker, dashboardMonthPicker,
                   currentDashboardMonth, dashboard, categoryChart,
                   parseVars, viewVars>>

\* The click on #key-delete (line 637).
clickKeyDelete ==
    /\ lockScreen = "flex"
    /\ removePinDigit
    /\ alertShown' = "none"
    /\ UNCHANGED <<isSettingUp, tempPin, zaimPin, lockScreen>>
    /\ UNCHANGED <<transactions, filteredTransactions, storage, nextId, pending,
                   typeFilter, searchInput, monthPicker, dashboardMonthPicker,
                   currentDashboardMonth, dashboard, categoryChart,
                   parseVars, viewVars>>

BACKSPACE == "Backspace"

\* The keydown listener of the document, lines 640-644.  The display the markup
\* gives #lock-screen is '' or 'none' (the page's markup sets it): with "markup"
\* the test of line 641 can go either way.
keydown(key) ==
    /\ \/ /\ lockScreen \in {"none", "markup"}
          /\ UNCHANGED <<pinCode, timers>>
       \/ /\ lockScreen \in {"flex", "markup"}
          /\ IF key \in PinDigits THEN addPinDigit(key)
             ELSE IF key = BACKSPACE THEN removePinDigit
             ELSE UNCHANGED <<pinCode, timers>>
    /\ alertShown' = "none"
    /\ UNCHANGED <<isSettingUp, tempPin, zaimPin, lockScreen>>
    /\ UNCHANGED <<transactions, filteredTransactions, storage, nextId, pending,
                   typeFilter, searchInput, monthPicker, dashboardMonthPicker,
                   currentDashboardMonth, dashboard, categoryChart,
                   parseVars, viewVars>>

\* The click on #lock-setup-btn, lines 647-657: lock the page when a PIN is
\* saved, startPinSetup() (lines 673-681) when none is.
clickLockBtn ==
    /\ IF hasPin(zaimPin)
       THEN UNCHANGED <<isSettingUp, tempPin>>
       ELSE isSettingUp' = TRUE /\ tempPin' = <<>>
    /\ lockScreen' = "flex"
    /\ pinCode' = <<>>
    /\ alertShown' = "none"
    /\ UNCHANGED <<zaimPin, timers>>
    /\ UNCHANGED <<transactions, filteredTransactions, storage, nextId, pending,
                   typeFilter, searchInput, monthPicker, dashboardMonthPicker,
                   currentDashboardMonth, dashboard, categoryChart,
                   parseVars, viewVars>>

\* Variant of handlePinComplete below: in unlock mode any code hides the screen.
handlePinCompleteAnyCode(i) ==
    /\ canRun(i)
    /\ timers[i] = COMPLETE
    /\ IF isSettingUp
       THEN IF tempPin = <<>>
            THEN /\ tempPin' = pinCode
                 /\ pinCode' = <<>>
                 /\ timers' = cleared(i)
                 /\ alertShown' = "none"
                 /\ UNCHANGED <<isSettingUp, zaimPin, lockScreen>>
            ELSE IF pinCode = tempPin
            THEN /\ zaimPin' = [present |-> TRUE, pin |-> pinCode]
                 /\ alertShown' = "pinSet"
                 /\ lockScreen' = "none"
                 /\ isSettingUp' = FALSE
                 /\ tempPin' = <<>>
                 /\ timers' = cleared(i)
                 /\ UNCHANGED pinCode
            ELSE /\ timers' = Append(cleared(i), RESET)
                 /\ tempPin' = <<>>
                 /\ alertShown' = "none"
                 /\ UNCHANGED <<pinCode, isSettingUp, zaimPin, lockScreen>>
       ELSE /\ lockScreen' = "none"
            /\ timers' = cleared(i)
            /\ alertShown' = "none"
            /\ UNCHANGED <<pinCode, isSettingUp, tempPin, zaimPin>>
    /\ UNCHANGED <<transactions, filteredTransactions, storage, nextId, pending,
                   typeFilter, searchInput, monthPicker, dashboardMonthPicker,
                   currentDashboardMonth, dashboard, categoryChart,
                   parseVars, viewVars>>

\* The 100 ms timer at place i runs handlePinComplete(), lines 718-757, with
\* showError() (lines 759-767) setting the 400 ms timer.  pinCode === savedPin is
\* false when no PIN is saved (savedPin is null).
handlePinComplete(i) ==
    /\ canRun(i)
    /\ timers[i] = COMPLETE
    /\ IF isSettingUp
       THEN IF tempPin = <<>>
            THEN /\ tempPin' = pinCode
                 /\ pinCode' = <<>>
                 /\ timers' = cleared(i)
                 /\ alertShown' = "none"
                 /\ UNCHANGED <<isSettingUp, zaimPin, lockScreen>>
            ELSE IF pinCode = tempPin
            THEN /\ zaimPin' = [present |-> TRUE, pin |-> pinCode]
                 /\ alertShown' = "pinSet"
                 /\ lockScreen' = "none"
                 /\ isSettingUp' = FALSE
                 /\ tempPin' = <<>>
                 /\ timers' = cleared(i)
                 /\ UNCHANGED pinCode
            ELSE /\ timers' = Append(cleared(i), RESET)
                 /\ tempPin' = <<>>
                 /\ alertShown' = "none"
                 /\ UNCHANGED <<pinCode, isSettingUp, zaimPin, lockScreen>>
       ELSE IF zaimPin.present /\ pinCode = zaimPin.pin
            THEN /\ lockScreen' = "none"
                 /\ timers' = cleared(i)
                 /\ alertShown' = "none"
                 /\ UNCHANGED <<pinCode, isSettingUp, tempPin, zaimPin>>
            ELSE /\ timers' = Append(cleared(i), RESET)
                 /\ alertShown' = "none"
                 /\ UNCHANGED <<pinCode, isSettingUp, tempPin, zaimPin, lockScreen>>
    /\ UNCHANGED <<transactions, filteredTransactions, storage, nextId, pending,
                   typeFilter, searchInput, monthPicker, dashboardMonthPicker,
                   currentDashboardMonth, dashboard, categoryChart,
                   parseVars, viewVars>>

\* The 400 ms timer at place i runs resetPinState(), lines 764-766.
errorReset(i) ==
    /\ canRun(i)
    /\ timers[i] = RESET
    /\ pinCode' = <<>>
    /\ timers' = cleared(i)
    /\ alertShown' = "none"
    /\ UNCHANGED <<isSettingUp, tempPin, zaimPin, lockScreen>>
    /\ UNCHANGED <<transactions, filteredTransactions, storage, nextId, pending,
                   typeFilter, searchInput, monthPicker, dashboardMonthPicker,
                   currentDashboardMonth, dashboard, categoryChart,
                   parseVars, viewVars>>

\* initLockSystem() on a fresh page, lines 613-627: the script's variables start
\* over and the screen is shown when a PIN is saved.
initLockSystem ==
    /\ pinCode' = <<>>
    /\ isSettingUp' = FALSE
    /\ tempPin' = <<>>
    /\ lockScreen' = IF hasPin(zaimPin) THEN "flex" ELSE "markup"

\* new Date() when the script starts: the day the page is loaded on.
Today == [year |-> 2025, month |-> 2, date |-> 15]

\* loadFromStorage() on the list a fresh page starts with.
loadFromStorage(item) == IF item.present THEN JSONparse(item.doc) ELSE <<>>

\* The page is loaded again: the script's variables and the controls start over,
\* reads in flight and timers are gone, and the DOMContentLoaded handler runs
\* initLockSystem(), loadFromStorage() and renderDashboard().
DOMContentLoaded ==
    /\ transactions' = loadFromStorage(storage)
    /\ filteredTransactions' \in
           IF storage.present
               THEN filterTransactions(transactions', ALL, <<>>, <<>>)
               ELSE {<<>>}
    /\ \E r \in renderDashboard(transactions', <<>>, <<>>) :
          /\ dashboardMonthPicker' = r.picker
          /\ currentDashboardMonth' = r.current
          /\ dashboard' = r.totals
          /\ categoryChart' = IF Len(transactions') = 0 THEN NoChart ELSE r.chart
    /\ typeFilter' = ALL
    /\ searchInput' = <<>>
    /\ monthPicker' = <<>>
    /\ pending' = EmptyBag
    /\ alertShown' = "none"
    /\ calCurrentDate' = Today
    /\ dailyData' = NoCalendar
    /\ dayData' = <<>>
    /\ initLockSystem
    /\ timers' = <<>>
    /\ UNCHANGED <<storage, nextId, zaimPin, parseVars>>

\* The change event of #dashboard-month-picker: renderDashboard().
changeDashboardMonth(month) ==
    /\ \E r \in renderDashboard(transactions, month, currentDashboardMonth) :
          /\ dashboardMonthPicker' = r.picker
          /\ currentDashboardMonth' = r.current
          /\ dashboard' = r.totals
          /\ categoryChart' = r.chart
    /\ alertShown' = "none"
    /\ UNCHANGED <<transactions, filteredTransactions, storage, nextId, pending,
                   typeFilter, searchInput, monthPicker, parseVars, viewVars, lockVars>>

\* The change event of #type-filter: filterTransactions().
changeTypeFilter(type) ==
    /\ typeFilter' = type
    /\ filteredTransactions' \in filterTransactions(transactions, type, searchInput, monthPicker)
    /\ alertShown' = "none"
    /\ UNCHANGED <<transactions, storage, nextId, pending, searchInput, monthPicker,
                   dashboardMonthPicker, currentDashboardMonth, dashboard, categoryChart,
                   parseVars, viewVars, lockVars>>

\* The input event of #search-input: filterTransactions().
inputSearch(search) ==
    /\ searchInput' = search
    /\ filteredTransactions' \in filterTransactions(transactions, typeFilter, search, monthPicker)
    /\ alertShown' = "none"
    /\ UNCHANGED <<transactions, storage, nextId, pending, typeFilter, monthPicker,
                   dashboardMonthPicker, currentDashboardMonth, dashboard, categoryChart,
                   parseVars, viewVars, lockVars>>

\* The change event of #month-picker: filterTransactions().
changeMonthPicker(month) ==
    /\ monthPicker' = month
    /\ filteredTransactions' \in filterTransactions(transactions, typeFilter, searchInput, month)
    /\ alertShown' = "none"
    /\ UNCHANGED <<transactions, storage, nextId, pending, typeFilter, searchInput,
                   dashboardMonthPicker, currentDashboardMonth, dashboard, categoryChart,
                   parseVars, viewVars, lockVars>>

\* switchView('calendar'): renderCalendar().
switchViewCalendar ==
    /\ dailyData' = renderCalendar(transactions, calCurrentDate)
    /\ alertShown' = "none"
    /\ UNCHANGED <<transactions, filteredTransactions, storage, nextId, pending,
                   typeFilter, searchInput, monthPicker, dashboardMonthPicker,
                   currentDashboardMonth, dashboard, categoryChart, calCurrentDate,
                   dayData, parseVars, lockVars>>

\* The months the calendar is moved over.
CalMonths == {2, 3}

\* The click on #cal-prev-btn (step -1) or #cal-next-btn (step 1).
calStep(step) ==
    /\ setMonth(calCurrentDate, calCurrentDate.month + step).month \in CalMonths
    /\ calCurrentDate' = setMonth(calCurrentDate, calCurrentDate.month + step)
    /\ dailyData' = renderCalendar(transactions, calCurrentDate')
    /\ alertShown' = "none"
    /\ UNCHANGED <<transactions, filteredTransactions, storage, nextId, pending,
                   typeFilter, searchInput, monthPicker, dashboardMonthPicker,
                   currentDashboardMonth, dashboard, categoryChart, dayData, parseVars, lockVars>>

\* Variant of the click below: the store itself is sorted, then filtered.
clickDaySortsStore(day) ==
    /\ dailyData.rendered
    /\ day \in 1..daysInMonth(calCurrentDate.year, calCurrentDate.month + 1)
    /\ transactions' \in sortByDay(transactions)
    /\ LET OnDay(t) == t.date = dateStr(calCurrentDate.year, calCurrentDate.month, day)
       IN  dayData' = SelectSeq(transactions', OnDay)
    /\ alertShown' = "none"
    /\ UNCHANGED <<filteredTransactions, storage, nextId, pending,
                   typeFilter, searchInput, monthPicker, dashboardMonthPicker,
                   currentDashboardMonth, dashboard, categoryChart, calCurrentDate,
                   dailyData, parseVars, lockVars>>

\* The click on the cell of a day of the calendar: openDayDetail(year, month, day)
\* with the year and month the calendar was rendered for.
clickDay(day) ==
    /\ dailyData.rendered
    /\ day \in 1..daysInMonth(calCurrentDate.year, calCurrentDate.month + 1)
    /\ dayData' \in openDayDetail(transactions, calCurrentDate.year, calCurrentDate.month, day)
    /\ alertShown' = "none"
    /\ UNCHANGED <<transactions, filteredTransactions, storage, nextId, pending,
                   typeFilter, searchInput, monthPicker, dashboardMonthPicker,
                   currentDashboardMonth, dashboard, categoryChart, calCurrentDate,
                   dailyData, parseVars, lockVars>>

(***************************************************************************)
(* The application: a fresh installation, then any sequence of events      *)
(***************************************************************************)
NoResult == [done |-> FALSE, threw |-> FALSE, expenses |-> <<>>]
NoFields == [done |-> FALSE, fields |-> <<>>]

Init ==
    /\ transactions = <<>>
    /\ filteredTransactions = <<>>
    /\ storage = NoItem
    /\ nextId = 1
    /\ pending = EmptyBag
    /\ typeFilter = ALL
    /\ searchInput = <<>>
    /\ monthPicker = <<>>
    /\ dashboardMonthPicker = <<>>
    /\ currentDashboardMonth = <<>>
    /\ dashboard = [income |-> 0, expense |-> 0, balance |-> 0]
    /\ alertShown = "none"
    /\ categoryChart = NoChart
    /\ calCurrentDate = Today
    /\ dailyData = NoCalendar
    /\ dayData = <<>>
    /\ csvText = <<>>
    /\ csvResult = NoResult
    /\ tokenLine = <<>>
    /\ tokenFields = NoFields
    /\ pinCode = <<>>
    /\ isSettingUp = FALSE
    /\ tempPin = <<>>
    /\ zaimPin = NoPin
    /\ lockScreen = "markup"
    /\ timers = <<>>

Next ==
    \/ \E form \in Forms : handleEntrySubmit(form)
    \/ \E id \in 1..MaxId, confirmed \in BOOLEAN : deleteTransaction(id, confirmed)
    \/ \E text \in Files : handleFileSelect(text, NoNote)
    \/ handleFileSelectNoFile
    \/ \E r \in BagToSet(pending) : readerOnload(r)
    \/ \E r \in BagToSet(pending) : readerOnerror(r)
    \/ DOMContentLoaded
    \/ \E month \in PickerMonths : changeDashboardMonth(month)

Spec == Init /\ [][Next]_vars

(***************************************************************************)
(* The imports alone, each read noting the store it started from           *)
(***************************************************************************)
storeNote == [transactions |-> transactions, storage |-> storage]

ImportNext ==
    \/ \E form \in Forms : handleEntrySubmit(form)
    \/ \E id \in 1..MaxId : deleteTransaction(id, TRUE)
    \/ \E text \in Files : handleFileSelect(text, storeNote)
    \/ \E r \in BagToSet(pending) : readerOnload(r)
    \/ \E r \in BagToSet(pending) : readerOnerror(r)

SpecImport == Init /\ [][ImportNext]_vars

(***************************************************************************)
(* The imports one at a time, every read delivered in the end              *)
(***************************************************************************)
\* A FileReader fires load or error for every read it was given (readAsText,
\* line 15): one of the two callbacks of a read in flight runs in the end.
readerSettles == \E r \in BagToSet(pending) : readerOnerror(r) \/ readerOnload(r)

LiveNext ==
    \/ \E form \in Forms : handleEntrySubmit(form)
    \/ \E id \in 1..MaxId : deleteTransaction(id, TRUE)
    \/ \E text \in Files : pending = EmptyBag /\ handleFileSelect(text, NoNote)
    \/ \E r \in BagToSet(pending) : readerOnload(r)
    \/ \E r \in BagToSet(pending) : readerOnerror(r)

SpecLive == Init /\ [][LiveNext]_vars /\ WF_vars(readerSettles)

(***************************************************************************)
(* splitCSVLine on its own, over every line of up to MaxLineLen characters *)
(***************************************************************************)
MaxLineLen == 5

\* The characters of the lines: a letter, the two the tokenizer reacts to, and a
\* space (the caller trims the line, a direct call need not).
LineChars == {"a", COMMA, QUOTE, SPACE}

\* The line a,"b,c",d of the tokenizer's example.
LineExample ==
    <<"a", COMMA, QUOTE, "b", COMMA, "c", QUOTE, COMMA, "d">>

TokenInit ==
    /\ transactions = <<>>
    /\ filteredTransactions = <<>>
    /\ storage = NoItem
    /\ nextId = 1
    /\ pending = EmptyBag
    /\ typeFilter = ALL
    /\ searchInput = <<>>
    /\ monthPicker = <<>>
    /\ dashboardMonthPicker = <<>>
    /\ currentDashboardMonth = <<>>
    /\ dashboard = [income |-> 0, expense |-> 0, balance |-> 0]
    /\ alertShown = "none"
    /\ categoryChart = NoChart
    /\ calCurrentDate = Today
    /\ dailyData = NoCalendar
    /\ dayData = <<>>
    /\ csvText = <<>>
    /\ csvResult = NoResult
    /\ tokenLine \in UNION {[1..n -> LineChars] : n \in 0..MaxLineLen} \cup {LineExample}
    /\ tokenFields = NoFields
    /\ pinCode = <<>>
    /\ isSettingUp = FALSE
    /\ tempPin = <<>>
    /\ zaimPin = NoPin
    /\ lockScreen = "markup"
    /\ timers = <<>>

callSplitCSVLine ==
    /\ ~tokenFields.done
    /\ tokenFields' = [done |-> TRUE, fields |-> splitCSVLine(tokenLine)]
    /\ UNCHANGED <<tokenLine, csvText, csvResult, storeVars>>

TokenNext == callSplitCSVLine

SpecToken == TokenInit /\ [][TokenNext]_vars

(***************************************************************************)
(* parseCSVText on its own, over every text of up to MaxLines lines        *)
(***************************************************************************)
MaxLines == 3

LineTwoFields == csvLine(<<Y2025, <<"3">>>>)
LineQuotedYear == csvLine(<<<<QUOTE>> \o Y2025 \o <<QUOTE>>, <<"1">>, <<"2">>>>)
LineFiveDigits == csvLine(<<Y2025 \o <<"5">>, <<"1">>, <<"2">>>>)
LinePadded == <<SPACE>> \o csvLine(<<Y2025, <<"1">>, <<"2">>>>) \o <<SPACE>>

ParseLines ==
    {LineHeader, LineRefund, LineTotal, LineBadMonth, LineYearOnly,
     LineTwoFields, LineQuotedYear, LineFiveDigits, LinePadded, <<>>}

LineEnds == {<<LF>>, <<CR, LF>>}

ParseInit ==
    /\ transactions = <<>>
    /\ filteredTransactions = <<>>
    /\ storage = NoItem
    /\ nextId = 1
    /\ pending = EmptyBag
    /\ typeFilter = ALL
    /\ searchInput = <<>>
    /\ monthPicker = <<>>
    /\ dashboardMonthPicker = <<>>
    /\ currentDashboardMonth = <<>>
    /\ dashboard = [income |-> 0, expense |-> 0, balance |-> 0]
    /\ alertShown = "none"
    /\ categoryChart = NoChart
    /\ calCurrentDate = Today
    /\ dailyData = NoCalendar
    /\ dayData = <<>>
    /\ \E n \in 0..MaxLines, bom \in BOOLEAN, end \in LineEnds :
          \E lines \in [1..n -> ParseLines] :
              csvText = (IF bom THEN <<BOM>> ELSE <<>>) \o join(lines, end)
    /\ csvResult = NoResult
    /\ tokenLine = <<>>
    /\ tokenFields = NoFields
    /\ pinCode = <<>>
    /\ isSettingUp = FALSE
    /\ tempPin = <<>>
    /\ zaimPin = NoPin
    /\ lockScreen = "markup"
    /\ timers = <<>>

callParseCSVText ==
    /\ ~csvResult.done
    /\ LET parsed == parseCSVText(csvText, 1)
       IN  csvResult' = [done |-> TRUE, threw |-> parsed.threw, expenses |-> parsed.expenses]
    /\ UNCHANGED <<csvText, tokenLine, tokenFields, storeVars>>

ParseNext == callParseCSVText

SpecParse == ParseInit /\ [][ParseNext]_vars

\* The application while the user never touches #dashboard-month-picker.
NoPickNext ==
    \/ \E form \in Forms : handleEntrySubmit(form)
    \/ \E id \in 1..MaxId, confirmed \in BOOLEAN : deleteTransaction(id, confirmed)
    \/ \E text \in Files : handleFileSelect(text, NoNote)
    \/ handleFileSelectNoFile
    \/ \E r \in BagToSet(pending) : readerOnload(r)
    \/ \E r \in BagToSet(pending) : readerOnerror(r)
    \/ DOMContentLoaded

SpecNoPick == Init /\ [][NoPickNext]_vars

(***************************************************************************)
(* The views: a page that has imported a file, then the events of one view *)
(***************************************************************************)
MaxRows == 3

\* Income on the day of LineLunch; a dearer expense on that day, found by the
\* same search in another case; a transfer, neither income nor expense; an
\* expense whose category is the name of a method every object has.
LineSalary ==
    csvLine(<<Y2025, <<"0", "3">>, <<"1", "5">>, INCOME, <<"s">>, <<>>, <<"B">>, <<"7">>>>)
LineDinner ==
    csvLine(<<Y2025, <<"3">>, <<"1", "5">>, EXPENSE, <<"f">>, <<>>, <<"l">>, <<"3", "0">>>>)
LineTransfer ==
    csvLine(<<Y2025, <<"0", "3">>, <<"1", "5">>, <<"T">>, <<"f">>, <<>>, <<"t">>, <<"4">>>>)
LineReserved ==
    csvLine(<<Y2025, <<"0", "3">>, <<"1", "5">>, EXPENSE,
              <<"c", "o", "n", "s", "t", "r", "u", "c", "t", "o", "r">>, <<>>, <<"t">>, <<"3">>>>)

\* The files of a header and up to MaxRows of the lines.
viewTexts(lines) ==
    {join(<<LineHeader>> \o rows, <<LF>>) :
        rows \in UNION {[1..n -> lines] : n \in 0..MaxRows}}

\* The page after a fresh installation has imported the file: handleFileSelect
\* with reader.onload, lines 273-285.
Imported(text) ==
    /\ transactions = parseCSVText(text, 1).expenses
    /\ storage = saveToStorage(transactions)
    /\ nextId = parseCSVText(text, 1).nextId
    /\ pending = EmptyBag
    /\ typeFilter = ALL
    /\ searchInput = <<>>
    /\ monthPicker = <<>>
    /\ filteredTransactions \in filterTransactions(transactions, ALL, <<>>, <<>>)
    /\ IF Len(transactions) = 0
       THEN /\ dashboardMonthPicker = <<>>
            /\ currentDashboardMonth = <<>>
            /\ dashboard = [income |-> 0, expense |-> 0, balance |-> 0]
            /\ categoryChart = NoChart
       ELSE \E r \in renderDashboard(transactions, <<>>, <<>>) :
               /\ dashboardMonthPicker = r.picker
               /\ currentDashboardMonth = r.current
               /\ dashboard = r.totals
               /\ categoryChart = r.chart
    /\ alertShown = "loaded"
    /\ calCurrentDate = Today
    /\ dailyData = NoCalendar
    /\ dayData = <<>>
    /\ csvText = <<>>
    /\ csvResult = NoResult
    /\ tokenLine = <<>>
    /\ tokenFields = NoFields
    /\ pinCode = <<>>
    /\ isSettingUp = FALSE
    /\ tempPin = <<>>
    /\ zaimPin = NoPin
    /\ lockScreen = "markup"
    /\ timers = <<>>

\* The dashboard: its month picker.
DashboardLines == {LineLunch, LineSalary, LineRefund, LineReserved}

DashboardInit == \E text \in viewTexts(DashboardLines) : Imported(text)

DashboardNext == \E month \in PickerMonths \cup {Y2025 \o <<DASH, "0", "4">>} : changeDashboardMonth(month)

SpecDashboard == DashboardInit /\ [][DashboardNext]_vars

\* The transaction list: its three filter controls.
FilterLines == {LineLunch, LineSalary, LineRefund, LineBadMonth}

FilterInit == \E text \in viewTexts(FilterLines) : Imported(text)

TypeChoices == {ALL, EXPENSE, INCOME}
Searches == {<<>>, <<"L">>, <<"S">>}

FilterNext ==
    \/ \E type \in TypeChoices : changeTypeFilter(type)
    \/ \E search \in Searches : inputSearch(search)
    \/ \E month \in PickerMonths : changeMonthPicker(month)

SpecFilter == FilterInit /\ [][FilterNext]_vars

\* The calendar: the view is opened, the month moved, a day clicked.
\* Income on another day of March.
LineGift ==
    csvLine(<<Y2025, <<"3">>, <<"2">>, INCOME, <<"s">>, <<>>, <<"b">>, <<"9">>>>)

CalendarLines == {LineLunch, LineSalary, LineDinner, LineTransfer, LineRefund, LineGift}

CalendarInit == \E text \in viewTexts(CalendarLines) : Imported(text)

DetailDays == {2, 15}

CalendarNext ==
    \/ switchViewCalendar
    \/ \E step \in {-1, 1} : calStep(step)
    \/ \E day \in DetailDays : clickDay(day)

SpecCalendar == CalendarInit /\ [][CalendarNext]_vars

\* All the views of a page that has imported one of a few files.
FileDay == join(<<LineHeader, LineLunch, LineSalary, LineDinner>>, <<LF>>)

ViewFiles == {FileMarch, FileNoData, FileDay}

ViewInit == \E text \in ViewFiles : Imported(text)

ViewNext ==
    \/ DashboardNext
    \/ FilterNext
    \/ CalendarNext

SpecView == ViewInit /\ [][ViewNext]_vars

(***************************************************************************)
(* The lock screen: keys, the lock button, timers and reloads              *)
(***************************************************************************)
\* The page has no record or the two of FileMarch.
LockFiles == {FileNoData, FileMarch}

LockInit == \E text \in LockFiles : Imported(text)

PressedKeys == PinDigits \cup {BACKSPACE}

LockNext ==
    \/ clickLockBtn
    \/ \E num \in PinDigits : clickKey(num)
    \/ clickKeyDelete
    \/ \E key \in PressedKeys : keydown(key)
    \/ \E i \in 1..MaxTimers : handlePinComplete(i)
    \/ \E i \in 1..MaxTimers : errorReset(i)
    \/ DOMContentLoaded

SpecLock == LockInit /\ [][LockNext]_vars

(***************************************************************************)
(* Properties                                                              *)
(***************************************************************************)
Ids(list) == {list[k].id : k \in 1..Len(list)}

\* The list without its k-th record, the others in their order.
without(list, k) == SubSeq(list, 1, k - 1) \o SubSeq(list, k + 1, Len(list))

\* C1: between any two handlers the item 'zaim_transactions' is the serialization
\* of the in-memory list; while nothing was ever saved the list is empty.
PersistedIsSerializedStore ==
    IF storage.present
        THEN storage.doc = JSONstringify(transactions)
        ELSE transactions = <<>>

\* A mutating handler has returned with two records in the store.
SavedAfterEntry ==
    /\ alertShown = "registered"
    /\ Len(transactions) >= 2
    /\ storage.present

\* C2: persisting the store and restoring it gives back the store, field for
\* field and in the same order.
RoundTripRestoresStore ==
    loadFromStorage(saveToStorage(transactions)) = transactions

\* C3: a confirmed deleteTransaction(id) of an id in the store removes exactly
\* the record with that id and keeps the others in their order; of an id not in
\* the store it leaves the list as it was.
DeleteRemovesExactlyThatRecord ==
    [][\A id \in 1..MaxId :
          deleteTransaction(id, TRUE) =>
              LET hits == {k \in 1..Len(transactions) : transactions[k].id = id}
              IN  IF hits # {}
                  THEN /\ Len(transactions') = Len(transactions) - 1
                       /\ id \notin Ids(transactions')
                       /\ \E k \in hits : transactions' = without(transactions, k)
                  ELSE transactions' = transactions]_vars

\* Of the two records FileMarch gave, the first was deleted.
SecondOfTwoRemains ==
    /\ transactions = <<parseCSVText(FileMarch, 1).expenses[2]>>
    /\ storage = saveToStorage(transactions)

\* C4: no two records of the store have the same id.
IdsAreUnique ==
    \A i, j \in 1..Len(transactions) :
        transactions[i].id = transactions[j].id => i = j

\* Three records are in the store.
ThreeRecords == Len(transactions) = 3

\* C5 as stated: when the read fails, store and item are what they were when the
\* import started, and the failure is reported.
FailedImportLeavesStoreAsAtStart ==
    [][\A r \in BagToSet(pending) :
          readerOnerror(r) =>
              /\ transactions' = r.atStart.transactions
              /\ storage' = r.atStart.storage
              /\ alertShown' = "failed"]_vars

\* C5 amended: the failing import itself changes neither the store nor the item
\* (they are what they were just before the failure was delivered) and reports
\* the failure.
FailedImportChangesNothing ==
    [][\A r \in BagToSet(pending) :
          readerOnerror(r) =>
              /\ transactions' = transactions
              /\ storage' = storage
              /\ alertShown' = "failed"]_vars

\* A failure was reported while the store held records.
FailureReportedOverRecords ==
    /\ alertShown = "failed"
    /\ transactions # <<>>
    /\ storage.doc = JSONstringify(transactions)

\* The lines of a text that are data lines: not the first, not blank, first
\* field four digits.
dataLines(text) ==
    LET lines == splitLines(stripBOM(text))
    IN  {i \in 2..Len(lines) :
            /\ trim(lines[i]) # <<>>
            /\ matchYear(splitCSVLine(trim(lines[i]))[1])}

\* C6: parseCSVText returns exactly one transaction per data line.
OneTransactionPerDataLine ==
    csvResult.done =>
        /\ ~csvResult.threw
        /\ Len(csvResult.expenses) = Cardinality(dataLines(csvText))

\* C7: parseCSVText never fails, whatever the text.
ParseNeverFails == csvResult.done => ~csvResult.threw

\* C8: a successful import leaves exactly the parsed list, in its order, in store
\* and item; no record of the store before it remains.
ImportReplacesStore ==
    [][\A r \in BagToSet(pending) :
          LET parsed == parseCSVText(r.text, nextId)
          IN  (readerOnload(r) /\ ~parsed.threw) =>
                  /\ transactions' = parsed.expenses
                  /\ Len(transactions') = Cardinality(dataLines(r.text))
                  /\ Ids(transactions') \cap Ids(transactions) = {}
                  /\ \A k \in 1..Len(transactions) :
                        \A l \in 1..Len(transactions') : transactions'[l] # transactions[k]
                  /\ storage' = [present |-> TRUE, doc |-> JSONstringify(transactions')]]_vars

\* FileMarch was imported after an id had been drawn for an earlier record.
MarchImportedOverEarlierRecord ==
    /\ alertShown = "loaded"
    /\ transactions = parseCSVText(FileMarch, 2).expenses

\* C9: an accepted entry puts one new record at index 0 and keeps the others as
\* they were; a rejected one changes neither store nor item.
EntryPrependsOneRecord ==
    [][\A form \in Forms :
          handleEntrySubmit(form) =>
              IF form.date # <<>> /\ parseInt(form.amount).k = "number"
              THEN /\ Len(transactions') = Len(transactions) + 1
                   /\ Tail(transactions') = transactions
                   /\ transactions'[1].id \notin Ids(transactions)
                   /\ transactions'[1].date = form.date
                   /\ transactions'[1].amount = parseInt(form.amount)
              ELSE /\ transactions' = transactions
                   /\ storage' = storage]_vars

\* An entry was registered in front of an earlier record.
EntryInFrontOfEarlier ==
    /\ alertShown = "registered"
    /\ Len(transactions) >= 2
    /\ transactions[1].id = nextId - 1

\* The months the totals are asked for.
Months == {Y2025 \o <<DASH, "0", "3">>, Y2025 \o <<DASH, "0", "4">>}

RECURSIVE sumOver(_, _)
sumOver(list, indexes) ==
    IF indexes = {} THEN 0
    ELSE LET k == CHOOSE x \in indexes : TRUE
         IN  list[k].amount.n + sumOver(list, indexes \ {k})

ofMonth(list, month, type) ==
    {k \in 1..Len(list) : startsWith(list[k].date, month) /\ list[k].type = type}

\* The totals of a month are the sums over its income and its expense records.
TotalsAreSums(month) ==
    LET totals == monthTotals(transactions, month)
    IN  /\ totals.income = sumOver(transactions, ofMonth(transactions, month, INCOME))
        /\ totals.expense = sumOver(transactions, ofMonth(transactions, month, EXPENSE))
        /\ totals.balance = totals.income - totals.expense

\* The dashboard shows the totals of the month its picker names.
DashboardShowsTotals ==
    IF transactions = <<>>
        THEN dashboard = [income |-> 0, expense |-> 0, balance |-> 0]
        ELSE dashboard = monthTotals(transactions, dashboardMonthPicker)

\* C10 as stated: balance = income - expense with income and expense the sums,
\* and both non-negative.
TotalsBalanceAndNonNegative ==
    /\ DashboardShowsTotals
    /\ dashboard.income >= 0 /\ dashboard.expense >= 0
    /\ \A month \in Months :
          /\ TotalsAreSums(month)
          /\ monthTotals(transactions, month).income >= 0
          /\ monthTotals(transactions, month).expense >= 0

\* C10 amended: balance = income - expense with income and expense the sums; a
\* total is non-negative when no amount that enters it is negative.
TotalsBalance ==
    /\ DashboardShowsTotals
    /\ dashboard.balance = dashboard.income - dashboard.expense
    /\ \A month \in Months :
          /\ TotalsAreSums(month)
          /\ \A type \in {INCOME, EXPENSE} :
                (\A k \in ofMonth(transactions, month, type) : transactions[k].amount.n >= 0)
                    => IF type = INCOME
                           THEN monthTotals(transactions, month).income >= 0
                           ELSE monthTotals(transactions, month).expense >= 0

\* The dashboard shows a month with both income and expense.
IncomeAndExpenseShown == dashboard.income > 0 /\ dashboard.expense > 0

RECURSIVE sumValues(_)
sumValues(totals) ==
    IF totals = <<>> THEN 0 ELSE Head(totals).value.n + sumValues(Tail(totals))

\* C11: the category totals of the chart are numbers, each for a category of an
\* expense record of the month shown, and together they are the month's expense
\* total of the dashboard.
CategoryTotalsSumToExpense ==
    categoryChart.drawn =>
        /\ \A i \in 1..Len(categoryChart.totals) :
              /\ categoryChart.totals[i].value.k = "number"
              /\ \E k \in ofMonth(transactions, dashboardMonthPicker, EXPENSE) :
                    propertyKey(transactions[k].category_med) = categoryChart.totals[i].key
        /\ \A k \in ofMonth(transactions, dashboardMonthPicker, EXPENSE) :
              \E i \in 1..Len(categoryChart.totals) :
                  categoryChart.totals[i].key = propertyKey(transactions[k].category_med)
        /\ sumValues(categoryChart.totals) = dashboard.expense

dateComponents(date) ==
    LET parts == splitDash(date)
    IN  [year |-> Number(col(parts, 0)), month |-> Number(col(parts, 1)),
         day |-> Number(col(parts, 2))]

\* C13: in every record of the store, year, month and day are the components of
\* its date string.
DateFieldsMatchDate ==
    \A k \in 1..Len(transactions) :
        LET t == transactions[k]
        IN  /\ t.year = dateComponents(t.date).year
            /\ t.month = dateComponents(t.date).month
            /\ t.day = dateComponents(t.date).day

\* A date is four digits, '-', two digits, '-', two digits.
isDateForm(date) ==
    /\ Len(date) = 10
    /\ date[5] = DASH /\ date[8] = DASH
    /\ \A i \in {1, 2, 3, 4, 6, 7, 9, 10} : date[i] \in Digits

\* C14: every record of the store has a date of the form YYYY-MM-DD.
DatesAreWellFormed ==
    \A k \in 1..Len(transactions) : isDateForm(transactions[k].date)

\* C15: while the user picks no month and the store is not empty, the dashboard
\* shows the totals of the month of the latest-dated record of the store.
LatestMonthShown ==
    transactions # <<>> =>
        /\ dashboardMonthPicker \in getLatestMonth(transactions)
        /\ dashboard = monthTotals(transactions, dashboardMonthPicker)

\* The text has the search text in it somewhere, letters compared without case.
containsCaseless(text, search) ==
    \E i \in 0..(Len(text) - Len(search)) :
        \A j \in 1..Len(search) : lowerChar(text[i + j]) = lowerChar(search[j])

\* The record meets the three criteria the controls are set to.
meetsCriteria(t) ==
    /\ typeFilter = ALL \/ t.type = typeFilter
    /\ \/ searchInput = <<>>
       \/ \E field \in {t.detail, t.category_med, t.payee} :
             field # Undefined /\ containsCaseless(field, searchInput)
    /\ monthPicker = <<>> \/ startsWith(t.date, monthPicker)

\* C16: the filtered list holds exactly the records of the store that meet all
\* three criteria, each once.
FilteredAreExactlyTheMatching ==
    LET want == {k \in 1..Len(transactions) : meetsCriteria(transactions[k])}
    IN  /\ Len(filteredTransactions) = Cardinality(want)
        /\ \A k \in want :
              \E i \in 1..Len(filteredTransactions) : filteredTransactions[i] = transactions[k]
        /\ \A i \in 1..Len(filteredTransactions) :
              \E k \in want : filteredTransactions[i] = transactions[k]

\* All three controls are set and keep some records of the store but not all.
ThreeCriteriaKeepSome ==
    /\ typeFilter = EXPENSE
    /\ searchInput = <<"L">>
    /\ monthPicker # <<>>
    /\ Len(filteredTransactions) = 2
    /\ Len(transactions) = 3

\* The place of a record of the filtered list in the store.
placeInStore(t) == CHOOSE k \in 1..Len(transactions) : transactions[k] = t

\* C18: the filtered list is ordered by date descending, and records of the same
\* date are in the order they have in the store.
FilteredByDateDescendingStable ==
    \A i, j \in 1..Len(filteredTransactions) :
        i < j =>
            LET a == filteredTransactions[i]
                b == filteredTransactions[j]
            IN  /\ (dateTime(a.date).k = "number" /\ dateTime(b.date).k = "number")
                       => dateTime(a.date).n >= dateTime(b.date).n
                /\ a.date = b.date => placeInStore(a) < placeInStore(b)

\* C17: no query (filterTransactions, renderDashboard with getLatestMonth and
\* renderCharts, renderCalendar, openDayDetail) changes the list of the store or
\* the saved item.
QueriesLeaveStore ==
    [][transactions' = transactions /\ storage' = storage]_vars

\* Every view has been used on a store of three records.
AllViewsUsed ==
    /\ Len(transactions) = 3
    /\ Len(dayData) = 3
    /\ dailyData.rendered
    /\ typeFilter = EXPENSE /\ Len(filteredTransactions) = 2
    /\ categoryChart.drawn

\* The records of the month the calendar is on, and those of them of one day.
calendarMonth == monthStr(calCurrentDate.year, calCurrentDate.month)
ofCalendarMonth == {k \in 1..Len(transactions) : startsWith(transactions[k].date, calendarMonth)}
ofDay(d, type) ==
    {k \in ofCalendarMonth : transactions[k].day = d /\ transactions[k].type = type}

\* C19: the calendar has an entry for a day exactly when a record of its month
\* has that day, one entry a day, and the entry's income and expense are the sums
\* over the day's income and expense records.
DailyTotalsAreDaySums ==
    dailyData.rendered =>
        /\ {dailyData.days[i].day : i \in 1..Len(dailyData.days)}
               = {transactions[k].day : k \in ofCalendarMonth}
        /\ Len(dailyData.days) = Cardinality({transactions[k].day : k \in ofCalendarMonth})
        /\ \A i \in 1..Len(dailyData.days) :
              LET entry == dailyData.days[i]
              IN  /\ entry.income = sumOver(transactions, ofDay(entry.day, INCOME))
                  /\ entry.expense = sumOver(transactions, ofDay(entry.day, EXPENSE))

\* The calendar shows two days of March, one with income and one with expense,
\* while the store also holds a record of April.
TwoDaysOfMarchShown ==
    /\ dailyData.rendered
    /\ calCurrentDate.month = 2
    /\ Len(dailyData.days) = 2
    /\ \E i \in 1..2 : dailyData.days[i].income > 0
    /\ \E i \in 1..2 : dailyData.days[i].expense > 0
    /\ Len(transactions) > Cardinality(ofCalendarMonth)

\* C20: the day detail holds exactly the store's records of the clicked date,
\* every income record before every expense record and, within one type, the
\* amounts not increasing.
DayDetailIsSorted ==
    [][\A day \in DetailDays :
          clickDay(day) =>
              LET date == dateStr(calCurrentDate.year, calCurrentDate.month, day)
                  want == {k \in 1..Len(transactions) : transactions[k].date = date}
              IN  /\ Len(dayData') = Cardinality(want)
                  /\ \A k \in want : \E i \in 1..Len(dayData') : dayData'[i] = transactions[k]
                  /\ \A i, j \in 1..Len(dayData') :
                        i < j =>
                            /\ ~(dayData'[i].type = EXPENSE /\ dayData'[j].type = INCOME)
                            /\ dayData'[i].type = dayData'[j].type
                                   => dayData'[i].amount.n >= dayData'[j].amount.n]_vars

\* The positions of the line's commas that lie outside a quoted region: an even
\* number of double quotes stands before them.
outsideCommas(line) ==
    {i \in 1..Len(line) :
        /\ line[i] = COMMA
        /\ Cardinality({j \in 1..(i - 1) : line[j] = QUOTE}) % 2 = 0}

\* The k-th stretch of the line between two such commas, its double quotes dropped.
stretch(line, k) ==
    LET seps == outsideCommas(line)
        sep(m) == CHOOSE i \in seps : Cardinality({x \in seps : x <= i}) = m
        from == IF k = 1 THEN 1 ELSE sep(k - 1) + 1
        to == IF k = Cardinality(seps) + 1 THEN Len(line) ELSE sep(k) - 1
        NotQuote(c) == c # QUOTE
    IN  SelectSeq(SubSeq(line, from, to), NotQuote)

\* C21: splitCSVLine returns, for every line, one more field than the line has
\* commas outside a quoted region; a double quote flips the quoted state and is
\* dropped, every other character (a comma inside quotes too) is kept in order;
\* a,"b,c",d gives the three fields a / b,c / d.
FieldsAreTheStretchesBetweenCommas ==
    tokenFields.done =>
        /\ Len(tokenFields.fields) = Cardinality(outsideCommas(tokenLine)) + 1
        /\ \A k \in 1..Len(tokenFields.fields) :
               tokenFields.fields[k] = stretch(tokenLine, k)
        /\ tokenLine = LineExample =>
               tokenFields.fields = <<<<"a">>, <<"b", COMMA, "c">>, <<"d">>>>

\* The example line has been tokenized into its three fields.
ExampleLineTokenized ==
    /\ tokenLine = LineExample
    /\ tokenFields.done
    /\ Len(tokenFields.fields) = 3
    /\ tokenFields.fields[2] = <<"b", COMMA, "c">>

\* An import is under way: handleFileSelect waits at its await.
importStarted == pending # EmptyBag

\* The import is over and its outcome was reported: the count of the adopted
\* list (line 280) or the failure (line 289).
importFinished == pending = EmptyBag /\ alertShown \in {"loaded", "failed"}

\* C22: every import that is started finishes in the end, by adopting the parsed
\* list and reporting its count or by reporting a failure; handleFileSelect never
\* stays at its await forever.
EveryImportFinishes == importStarted ~> importFinished

\* C23: under every interleaving of digit presses, delete presses and the two
\* deferred callbacks, pinCode never has more than 4 characters, and a PIN
\* written to 'zaim_pin' is exactly 4 digits long and equals both the first
\* setup entry (tempPin) and the confirmation entry (pinCode).
SavedPinIsFourDigitsEnteredTwice ==
    [][/\ Len(pinCode') <= 4
       /\ zaimPin' # zaimPin =>
              /\ Len(zaimPin'.pin) = 4
              /\ zaimPin'.pin = tempPin
              /\ zaimPin'.pin = pinCode]_vars

\* A PIN is saved and the lock screen is shown in unlock mode.
locked == hasPin(zaimPin) /\ lockScreen = "flex" /\ ~isSettingUp

\* The step is a run of handlePinComplete.
completes == \E i \in 1..Len(timers) : handlePinComplete(i)

\* C24: while a PIN is saved and the lock screen is shown in unlock mode, only a
\* run of handlePinComplete with pinCode equal to the saved PIN hides the screen;
\* every other step leaves it shown, and a run with another code leaves the saved
\* PIN and the transaction store as they are.
OnlyTheSavedPinUnlocks ==
    [][/\ locked /\ lockScreen' # "flex" => completes /\ pinCode = zaimPin.pin
       /\ locked /\ completes /\ pinCode # zaimPin.pin =>
              /\ lockScreen' = "flex"
              /\ UNCHANGED <<zaimPin, transactions, storage>>]_vars

\* A wrong code of four digits was checked against a saved PIN over a page with
\* records: the screen is still shown and the error reset is pending.
WrongCodeStaysLocked ==
    /\ locked
    /\ Len(zaimPin.pin) = 4
    /\ Len(pinCode) = 4
    /\ pinCode # zaimPin.pin
    /\ timers = <<RESET>>
    /\ Len(transactions) > 0

====
